---------------------------- MODULE Spec2Model ----------------------------
(***************************************************************************)
(* A model of distutils2/metadata.py: the DistributionMetadata record      *)
(* (fields, inferred version, set/get/delete/read_file/write_file) and the *)
(* PEP 345 environment-marker micro-language (_Operation, _AND, _OR,       *)
(* _CHAIN, _interpret).                                                    *)
(*                                                                         *)
(* Python values are tagged records: Str(s) is a str, List(l) a list of    *)
(* str, NoneV is None.  A str is a sequence of atoms; an atom is a piece   *)
(* of text that no operation of the module cuts in two (a word, a quoted   *)
(* literal, a single separator character such as "," ";" "\n" " " "|").    *)
(* A call returns a record [self, raised, ret]: the record's state after   *)
(* the call, the exception that left it ("none" when it returned) and the  *)
(* returned value.  File(lines) is the content of a written file object.   *)
(***************************************************************************)
EXTENDS Integers, Sequences, FiniteSets, TLC

VARIABLES
    fields,              \* self._fields: canonical name -> stored value
    version,             \* self.version
    platform_dependant,  \* self.platform_dependant
    execution_context,   \* self.execution_context (NoCtx when None)
    last,                \* the last call: [op, name, raised, ret]
    copy,                \* a second record, read from what the first wrote
    ops,                 \* _CHAIN.ops
    op_starting,         \* _CHAIN.op_starting
    toks,                \* tokens tokenize still has to hand to eat
    marker,              \* the tokens of the marker being interpreted
    desc                 \* a description string under encode/decode

vars == <<fields, version, platform_dependant, execution_context, last,
          copy, ops, op_starting, toks, marker, desc>>

-----------------------------------------------------------------------------
(* Python values *)

NoneV == [t |-> "none", v |-> <<>>]
Str(s) == [t |-> "str", v |-> s]
List(l) == [t |-> "list", v |-> l]
File(lines) == [t |-> "file", v |-> lines]
Bool(b) == [t |-> "bool", v |-> b]

IsNone(x) == x.t = "none"
IsStr(x) == x.t = "str"
IsList(x) == x.t = "list"

Return(self, x) == [self |-> self, raised |-> "none", ret |-> x]
Raise(self, e) == [self |-> self, raised |-> e, ret |-> NoneV]

\* F applied to the value of v, v evaluated once (a strict LET)
Bind(v, F(_)) == CHOOSE y \in {F(x) : x \in {v}} : TRUE

\* dict[key] = value
Put(d, key, value) == [k \in DOMAIN d \cup {key} |-> IF k = key THEN value ELSE d[k]]
\* del dict[key]
Del(d, key) == [k \in DOMAIN d \ {key} |-> d[k]]
EmptyDict == [k \in {} |-> NoneV]

\* x in tuple
InTuple(x, tuple) == \E i \in 1..Len(tuple) : tuple[i] = x

-----------------------------------------------------------------------------
(* str operations on sequences of atoms *)

\* s.split(sep): the pieces of s between the occurrences of the atom sep
RECURSIVE split(_, _)
split(s, sep) ==
    IF \A i \in 1..Len(s) : s[i] # sep
    THEN <<s>>
    ELSE LET i == CHOOSE i \in 1..Len(s) :
                     s[i] = sep /\ \A j \in 1..(i - 1) : s[j] # sep
         IN  <<SubSeq(s, 1, i - 1)>> \o split(SubSeq(s, i + 1, Len(s)), sep)

\* sep.join(l)
RECURSIVE join(_, _)
join(l, sep) ==
    IF Len(l) = 0 THEN <<>>
    ELSE IF Len(l) = 1 THEN l[1]
    ELSE l[1] \o <<sep>> \o join(Tail(l), sep)

\* whether pat occurs in s at position i
MatchAt(s, pat, i) ==
    /\ i + Len(pat) - 1 <= Len(s)
    /\ \A k \in 1..Len(pat) : s[i + k - 1] = pat[k]

\* s with every (leftmost, non-overlapping) occurrence of pat replaced by
\* rep: str.replace(pat, rep) and re.sub(pat, rep, s) for a literal pattern
RECURSIVE replace(_, _, _)
replace(s, pat, rep) ==
    IF Len(s) = 0 THEN <<>>
    ELSE IF MatchAt(s, pat, 1)
         THEN rep \o replace(SubSeq(s, Len(pat) + 1, Len(s)), pat, rep)
         ELSE <<Head(s)>> \o replace(Tail(s), pat, rep)

-----------------------------------------------------------------------------
(* Field schema *)

PKG_INFO_PREFERRED_VERSION == Str(<<"1.0">>)

_LINE_PREFIX == <<"\n", " ", " ", " ", " ", " ", " ", " ", "|">>

_241_FIELDS == <<"Metadata-Version", "Name", "Version", "Platform",
                 "Summary", "Description",
                 "Keywords", "Home-page", "Author", "Author-email",
                 "License">>

_314_FIELDS == <<"Metadata-Version", "Name", "Version", "Platform",
                 "Supported-Platform", "Summary", "Description",
                 "Keywords", "Home-page", "Author", "Author-email",
                 "License", "Classifier", "Download-URL", "Obsoletes",
                 "Provides", "Requires">>

_314_MARKERS == <<"Obsoletes", "Provides", "Requires">>

_345_FIELDS == <<"Metadata-Version", "Name", "Version", "Platform",
                 "Supported-Platform", "Summary", "Description",
                 "Keywords", "Home-page", "Author", "Author-email",
                 "Maintainer", "Maintainer-email", "License",
                 "Classifier", "Download-URL", "Obsoletes-Dist",
                 "Provides-Dist", "Requires-Dist", "Requires-Python",
                 "Requires-External">>

_345_MARKERS == <<"Provides-Dist", "Requires-Dist", "Requires-Python",
                  "Obsoletes-Dist", "Requires-External", "Maintainer",
                  "Maintainer-email">>

_ALL_FIELDS == _241_FIELDS \o
               SelectSeq(_314_FIELDS, LAMBDA f : ~InTuple(f, _241_FIELDS)) \o
               SelectSeq(_345_FIELDS, LAMBDA f : ~InTuple(f, _241_FIELDS)
                                                 /\ ~InTuple(f, _314_FIELDS))

_ATTR2FIELD ==
    [metadata_version |-> "Metadata-Version",
     name |-> "Name",
     version |-> "Version",
     platform |-> "Platform",
     supported_platform |-> "Supported-Platform",
     description |-> "Summary",
     long_description |-> "Description",
     keywords |-> "Keywords",
     url |-> "Home-page",
     author |-> "Author",
     author_email |-> "Author-email",
     maintainer |-> "Maintainer",
     maintainer_email |-> "Maintainer-email",
     licence |-> "License",
     classifier |-> "Classifier",
     download_url |-> "Download-URL",
     obsoletes_dist |-> "Obsoletes-Dist",
     provides_dist |-> "Provides-Dist",
     requires_dist |-> "Requires-Dist",
     requires_python |-> "Requires-Python",
     requires_external |-> "Requires-External",
     requires |-> "Requires",
     provides |-> "Provides",
     obsoletes |-> "Obsoletes"]

_PREDICATE_FIELDS == <<"Requires-Dist", "Obsoletes-Dist", "Provides-Dist">>

_LISTFIELDS == <<"Platform", "Classifier", "Obsoletes",
                 "Requires", "Provides", "Obsoletes-Dist",
                 "Provides-Dist", "Requires-Dist", "Requires-Python",
                 "Requires-External">>

_ELEMENTSFIELD == <<"Keywords">>

_UNICODEFIELDS == <<"Author", "Maintainer", "Summary", "Description">>

\* _version2fieldlist that falls back to the 1.0 fields instead of raising
_version2fieldlist_falls_back(ver) ==
    IF ver = Str(<<"1.1">>) THEN [raised |-> "none", ret |-> _314_FIELDS]
    ELSE IF ver = Str(<<"1.2">>) THEN [raised |-> "none", ret |-> _345_FIELDS]
    ELSE [raised |-> "none", ret |-> _241_FIELDS]

\* _version2fieldlist(version): [raised, ret]
_version2fieldlist(ver) ==
    IF ver = Str(<<"1.0">>) THEN [raised |-> "none", ret |-> _241_FIELDS]
    ELSE IF ver = Str(<<"1.1">>) THEN [raised |-> "none", ret |-> _314_FIELDS]
    ELSE IF ver = Str(<<"1.2">>) THEN [raised |-> "none", ret |-> _345_FIELDS]
    ELSE [raised |-> "MetadataUnrecognizedVersionError", ret |-> <<>>]

_has_marker(keys, markers) == \E i \in 1..Len(markers) : markers[i] \in keys

\* _best_version without the test for mixed markers
_best_version_no_conflict(f) ==
    LET keys == DOMAIN f
        is_1_1 == _has_marker(keys, _314_MARKERS)
        is_1_2 == _has_marker(keys, _345_MARKERS)
    IN  IF ~is_1_1 /\ ~is_1_2
        THEN [raised |-> "none", ret |-> PKG_INFO_PREFERRED_VERSION]
        ELSE IF is_1_1
        THEN [raised |-> "none", ret |-> Str(<<"1.1">>)]
        ELSE [raised |-> "none", ret |-> Str(<<"1.2">>)]

\* _best_version(fields): [raised, ret]
_best_version(f) ==
    LET keys == DOMAIN f
        is_1_1 == _has_marker(keys, _314_MARKERS)
        is_1_2 == _has_marker(keys, _345_MARKERS)
    IN  IF is_1_1 /\ is_1_2
        THEN [raised |-> "MetadataConflictError", ret |-> NoneV]
        ELSE IF ~is_1_1 /\ ~is_1_2
        THEN [raised |-> "none", ret |-> PKG_INFO_PREFERRED_VERSION]
        ELSE IF is_1_1
        THEN [raised |-> "none", ret |-> Str(<<"1.1">>)]
        ELSE [raised |-> "none", ret |-> Str(<<"1.2">>)]

-----------------------------------------------------------------------------
(* Characters of the atoms that occur in markers.  The marker evaluator     *)
(* looks inside its operands (first and last character, length, quote       *)
(* stripping, str comparison), so these atoms are spelled out.              *)

Chars(a) ==
    CASE a = "sys" -> <<"s", "y", "s">>
      [] a = "platform" -> <<"p", "l", "a", "t", "f", "o", "r", "m">>
      [] a = "os" -> <<"o", "s">>
      [] a = "name" -> <<"n", "a", "m", "e">>
      [] a = "python_version" ->
           <<"p", "y", "t", "h", "o", "n", "_", "v", "e", "r", "s", "i", "o", "n">>
      [] a = "foo" -> <<"f", "o", "o">>
      [] a = "x" -> <<"x">>
      [] a = "linux" -> <<"l", "i", "n", "u", "x">>
      [] a = "linux2" -> <<"l", "i", "n", "u", "x", "2">>
      [] a = "win32" -> <<"w", "i", "n", "3", "2">>
      [] a = "posix" -> <<"p", "o", "s", "i", "x">>
      [] a = "nt" -> <<"n", "t">>
      [] a = "2.6" -> <<"2", ".", "6">>
      [] a = "2.5" -> <<"2", ".", "5">>
      [] a = "2.6.5" -> <<"2", ".", "6", ".", "5">>
      [] a = "'linux2'" -> <<"'", "l", "i", "n", "u", "x", "2", "'">>
      [] a = "'win32'" -> <<"'", "w", "i", "n", "3", "2", "'">>
      [] a = "'posix'" -> <<"'", "p", "o", "s", "i", "x", "'">>
      [] a = "\"posix\"" -> <<"\"", "p", "o", "s", "i", "x", "\"">>
      [] a = "'2.6'" -> <<"'", "2", ".", "6", "'">>
      [] a = "'2.5'" -> <<"'", "2", ".", "5", "'">>
      [] a = "'in'" -> <<"'", "i", "n", "'">>
      [] a = "''" -> <<"'", "'">>
      [] a = "'x'" -> <<"'", "x", "'">>
      [] OTHER -> <<a>>       \* any other atom: one opaque non-quote character

RECURSIVE chars(_)
chars(s) == IF Len(s) = 0 THEN <<>> ELSE Chars(Head(s)) \o chars(Tail(s))

\* the characters of the model in ASCII order
Ascii == <<"\"", "'", ".", "0", "1", "2", "3", "4", "5", "6", "7", "8", "9",
           "_", "a", "b", "c", "d", "e", "f", "g", "h", "i", "j", "k", "l",
           "m", "n", "o", "p", "q", "r", "s", "t", "u", "v", "w", "x", "y",
           "z">>
Ord(c) == CHOOSE i \in 1..Len(Ascii) : Ascii[i] = c

\* x < y on str (lexicographic on character codes)
RECURSIVE StrLess(_, _)
StrLess(x, y) ==
    IF Len(y) = 0 THEN FALSE
    ELSE IF Len(x) = 0 THEN TRUE
    ELSE IF Head(x) = Head(y) THEN StrLess(Tail(x), Tail(y))
    ELSE Ord(Head(x)) < Ord(Head(y))

\* x in y on str
StrIn(x, y) == \E i \in 1..(Len(y) + 1) : MatchAt(y, x, i) \/ Len(x) = 0

-----------------------------------------------------------------------------
(* The micro-language for PEP 345 environment markers *)

_STR_LIMIT == {"'", "\""}

_OPERATORS == {"==", "!=", ">", ">=", "<", "<=", "in", "not in"}

\* _operate(operation, x, y) on two str given by their characters
_operate(operation, x, y) ==
    CASE operation = "==" -> x = y
      [] operation = "!=" -> x # y
      [] operation = ">" -> StrLess(y, x)
      [] operation = ">=" -> ~StrLess(x, y)
      [] operation = "<" -> StrLess(x, y)
      [] operation = "<=" -> ~StrLess(y, x)
      [] operation = "in" -> StrIn(x, y)
      [] operation = "not in" -> ~StrIn(x, y)

\* The names of _VARS.  The values are those of the interpreter the module
\* was imported by; the model fixes a Python 2.6 on Linux.  platform.version
\* and platform.machine are bound to the functions themselves, not to their
\* results, and the model's markers do not read them.
VarNames == {<<"sys", ".", "platform">>, <<"python_version">>,
             <<"python_full_version">>, <<"os", ".", "name">>,
             <<"platform", ".", "version">>, <<"platform", ".", "machine">>}

_VARS(n) ==
    CASE n = <<"sys", ".", "platform">> -> <<"linux2">>
      [] n = <<"python_version">> -> <<"2.6">>
      [] n = <<"python_full_version">> -> <<"2.6.5">>
      [] n = <<"os", ".", "name">> -> <<"posix">>
      [] OTHER -> <<"<function>">>

NoCtx == [t |-> "none", v |-> [k \in {} |-> <<>>]]
Ctx(d) == [t |-> "dict", v |-> d]

\* _Operation(execution_context): the context None becomes {}
NewOperation(ctx) ==
    [t |-> "node", kind |-> "Operation", left |-> NoneV, op |-> NoneV,
     right |-> NoneV,
     execution_context |-> IF ctx.t = "none" THEN Ctx(NoCtx.v) ELSE ctx]

\* _AND(left) and _OR(left), right=None
NewAND(l) ==
    [t |-> "node", kind |-> "AND", left |-> l, op |-> NoneV, right |-> NoneV,
     execution_context |-> NoCtx]
NewOR(l) ==
    [t |-> "node", kind |-> "OR", left |-> l, op |-> NoneV, right |-> NoneV,
     execution_context |-> NoCtx]

\* filled that answers True for an empty right slot too
filled_always(node) == TRUE

\* _AND.filled / _OR.filled
filled(node) == ~IsNone(node.right)

\* _get_var that reads the built-in table only
_get_var_builtin_only(self, n) == _VARS(n)

\* _Operation._get_var(name)
_get_var(self, n) ==
    IF n \in DOMAIN self.execution_context.v
    THEN self.execution_context.v[n]
    ELSE _VARS(n)

\* _Operation._is_string(value)
_is_string(value) ==
    IF IsNone(value) \/ Len(chars(value.v)) < 2 THEN FALSE
    ELSE LET c == chars(value.v)
         IN  \E delimiter \in _STR_LIMIT :
                 c[1] = delimiter /\ c[Len(c)] = delimiter

\* value in _VARS
_is_name(value) == IsStr(value) /\ value.v \in VarNames

\* s.strip(_STR_LIMIT) on characters
RECURSIVE lstrip(_, _)
lstrip(c, set) ==
    IF Len(c) > 0 /\ Head(c) \in set THEN lstrip(Tail(c), set) ELSE c
RECURSIVE rstrip(_, _)
rstrip(c, set) ==
    IF Len(c) > 0 /\ c[Len(c)] \in set
    THEN rstrip(SubSeq(c, 1, Len(c) - 1), set) ELSE c
strip(c, set) == rstrip(lstrip(c, set), set)

\* _Operation._convert(value): the characters of the str it returns
_convert(self, value) ==
    IF _is_name(value) THEN chars(_get_var(self, value.v))
    ELSE strip(chars(value.v), _STR_LIMIT)

\* _Operation.__call__ without the _check_name calls
Operation_call_no_check_name(self) ==
    LET bothStrings == _is_string(self.left) /\ _is_string(self.right)
        noString == ~_is_string(self.left) /\ ~_is_string(self.right)
    IN  IF bothStrings \/ noString
        THEN [raised |-> "SyntaxError", ret |-> FALSE]
        ELSE IF IsNone(self.op) \/ self.op.v \notin {<<o>> : o \in _OPERATORS}
        THEN [raised |-> "TypeError", ret |-> FALSE]
        ELSE [raised |-> "none",
              ret |-> _operate(self.op.v[1], _convert(self, self.left),
                               _convert(self, self.right))]

\* _Operation.__call__: [raised, ret]
Operation_call(self) ==
    LET bothStrings == _is_string(self.left) /\ _is_string(self.right)
        noString == ~_is_string(self.left) /\ ~_is_string(self.right)
        checked == IF _is_string(self.left) THEN self.right ELSE self.left
    IN  IF bothStrings \/ noString
        THEN [raised |-> "SyntaxError", ret |-> FALSE]      \* _nonsense_op
        ELSE IF ~_is_name(checked)
        THEN [raised |-> "NameError", ret |-> FALSE]        \* _check_name
        ELSE IF IsNone(self.op) \/ self.op.v \notin {<<o>> : o \in _OPERATORS}
        THEN [raised |-> "TypeError", ret |-> FALSE]
        ELSE [raised |-> "none",
              ret |-> _operate(self.op.v[1], _convert(self, self.left),
                               _convert(self, self.right))]

\* node() with _OR.__call__ a copy of _AND.__call__
RECURSIVE call_or_as_and(_)
call_or_as_and(node) ==
    IF IsNone(node) THEN [raised |-> "TypeError", ret |-> FALSE]
    ELSE IF node.kind = "Operation" THEN Operation_call(node)
    ELSE Bind(call_or_as_and(node.left), LAMBDA l :
             IF l.raised # "none" THEN l
             ELSE IF l.ret THEN call_or_as_and(node.right) ELSE l)

\* node() with both operands of _AND and _OR evaluated before they are
\* combined
RECURSIVE call_eager(_)
call_eager(node) ==
    IF IsNone(node) THEN [raised |-> "TypeError", ret |-> FALSE]
    ELSE IF node.kind = "Operation" THEN Operation_call(node)
    ELSE Bind(call_eager(node.left), LAMBDA l :
             IF l.raised # "none" THEN l
             ELSE Bind(call_eager(node.right), LAMBDA r :
                      IF r.raised # "none" THEN r
                      ELSE IF node.kind = "AND"
                      THEN [raised |-> "none", ret |-> l.ret /\ r.ret]
                      ELSE [raised |-> "none", ret |-> l.ret \/ r.ret]))

\* node(): _Operation.__call__, _AND.__call__, _OR.__call__; calling the
\* None in an unfilled right slot is a TypeError
RECURSIVE call(_)
call(node) ==
    IF IsNone(node) THEN [raised |-> "TypeError", ret |-> FALSE]
    ELSE IF node.kind = "Operation" THEN Operation_call(node)
    ELSE Bind(call(node.left), LAMBDA l :
             IF l.raised # "none" THEN l
             ELSE IF node.kind = "AND"
             THEN (IF l.ret THEN call(node.right) ELSE l)
             ELSE (IF l.ret THEN l ELSE call(node.right)))

-----------------------------------------------------------------------------
(* tokenize and _CHAIN *)

\* The token type tokenize gives an atom.  "$" is an ERRORTOKEN, a digit
\* string a NUMBER, "\n" a NEWLINE.
TokType(a) ==
    CASE a \in {"==", "!=", ">", ">=", "<", "<=", ".", "=", ";", ",", "|"} -> "OP"
      [] Chars(a)[1] \in _STR_LIMIT -> "STRING"
      [] a = "$" -> "ERRORTOKEN"
      [] a = "\n" -> "NEWLINE"
      [] a \in {"2", "26"} -> "NUMBER"
      [] OTHER -> "NAME"

Tok(type, val) == [type |-> type, val |-> val]
ENDMARKER == Tok("ENDMARKER", "")

\* tokenize(StringIO(text).readline, eat): the tokens eat is called with,
\* in order; blanks separate tokens and are no token themselves
tokenize(text) ==
    LET atoms == SelectSeq(text, LAMBDA a : a # " ")
    IN  [i \in 1..Len(atoms) |-> Tok(TokType(atoms[i]), atoms[i])]
        \o <<ENDMARKER>>

\* _CHAIN(execution_context)
NewChain(ctx) == [ops |-> <<>>, op_starting |-> TRUE, execution_context |-> ctx]

\* str += tokval (or str = tokval when it is None)
Append_tokval(value, tokval) ==
    IF IsNone(value) THEN Str(<<tokval>>) ELSE Str(value.v \o <<tokval>>)

\* the body of eat after the connective test, on the operation op
eat_operand(op, tok) ==
    IF (tok.type \in {"NAME", "STRING"} /\ tok.val \notin {"in", "not"})
       \/ (tok.type = "OP" /\ tok.val = ".")
    THEN IF IsNone(op.op)
         THEN [op EXCEPT !.left = Append_tokval(op.left, tok.val)]
         ELSE [op EXCEPT !.right = Append_tokval(op.right, tok.val)]
    ELSE IF tok.type = "OP" \/ tok.val \in {"in", "not"}
    THEN IF tok.val = "in" /\ op.op = Str(<<"not">>)
         THEN [op EXCEPT !.op = Str(<<"not in">>)]
         ELSE [op EXCEPT !.op = Str(<<tok.val>>)]
    ELSE op

\* _CHAIN.eat(toktype, tokval, ...): [self, raised]
eat(self, tok) ==
    IF tok.type \notin {"NAME", "OP", "STRING", "ENDMARKER"}
    THEN [self |-> self, raised |-> "SyntaxError"]
    ELSE
    LET n == Len(self.ops)
        fresh == NewOperation(self.execution_context)
        \* if self.op_starting: ... self.op_starting = False
        ops1 == IF ~self.op_starting THEN self.ops
                ELSE IF n > 0 /\ self.ops[n].kind \in {"OR", "AND"}
                        /\ ~filled(self.ops[n])
                THEN [self.ops EXCEPT ![n].right = fresh]
                ELSE Append(self.ops, fresh)
        m == Len(ops1)
        connective == tok.type = "ENDMARKER"
                      \/ (tok.type = "NAME" /\ tok.val \in {"and", "or"})
        ops2 == IF tok.type = "NAME" /\ tok.val = "and"
                THEN [ops1 EXCEPT ![m] = NewAND(ops1[m])]
                ELSE IF tok.type = "NAME" /\ tok.val = "or"
                THEN [ops1 EXCEPT ![m] = NewOR(ops1[m])]
                ELSE ops1
        \* op = self.ops[-1], then op = op.right for a filled _AND/_OR; a
        \* fresh operation is either self.ops[-1] or self.ops[-1].right
        inRight == ops1[m].kind \in {"OR", "AND"}
    IN  IF ~self.op_starting /\ n = 0
        THEN [self |-> self, raised |-> "IndexError"]
        ELSE IF connective
        THEN [self |-> [self EXCEPT !.ops = ops2, !.op_starting = TRUE],
              raised |-> "none"]
        ELSE IF inRight /\ IsNone(ops1[m].right)
        THEN [self |-> [self EXCEPT !.ops = ops1, !.op_starting = FALSE],
              raised |-> "AttributeError"]
        ELSE [self |-> [self EXCEPT
                          !.ops = IF inRight
                                  THEN [ops1 EXCEPT ![m].right =
                                            eat_operand(ops1[m].right, tok)]
                                  ELSE [ops1 EXCEPT ![m] =
                                            eat_operand(ops1[m], tok)],
                          !.op_starting = FALSE],
              raised |-> "none"]

\* _CHAIN.result(): [raised, ret]
RECURSIVE result_from(_, _)
result_from(chainops, i) ==
    IF i > Len(chainops) THEN [raised |-> "none", ret |-> TRUE]
    ELSE Bind(call(chainops[i]), LAMBDA r :
             IF r.raised # "none" THEN r
             ELSE IF ~r.ret THEN [raised |-> "none", ret |-> FALSE]
             ELSE result_from(chainops, i + 1))
result(self) == result_from(self.ops, 1)

\* the chain after eat has been called with tokens[i..]: [self, raised]
RECURSIVE eat_all(_, _, _)
eat_all(self, tokens, i) ==
    IF i > Len(tokens) THEN [self |-> self, raised |-> "none"]
    ELSE Bind(eat(self, tokens[i]), LAMBDA r :
             IF r.raised # "none" THEN r ELSE eat_all(r.self, tokens, i + 1))

\* marker.strip(): blanks and newlines off both ends
str_strip(s) == strip(s, {" ", "\n"})

\* _interpret(marker, execution_context): [raised, ret]
_interpret(text, ctx) ==
    Bind(eat_all(NewChain(ctx), tokenize(str_strip(text)), 1), LAMBDA r :
        IF r.raised # "none" THEN [raised |-> r.raised, ret |-> FALSE]
        ELSE result(r.self))

-----------------------------------------------------------------------------
(* DistributionMetadata.  self is [fields, version, platform_dependant,    *)
(* execution_context].                                                     *)

\* DistributionMetadata(platform_dependant, execution_context), no path
NewMetadata(pd, ctx) ==
    [fields |-> EmptyDict, version |-> NoneV, platform_dependant |-> pd,
     execution_context |-> ctx]

\* _set_best_version that assigns `version` and leaves _fields alone
_set_best_version_keeps_field(self) ==
    Bind(_best_version(self.fields), LAMBDA bv :
        IF bv.raised # "none" THEN Raise(self, bv.raised)
        ELSE Return([self EXCEPT !.version = bv.ret], NoneV))

\* _set_best_version: [self, raised, ret]
_set_best_version(self) ==
    Bind(_best_version(self.fields), LAMBDA bv :
        IF bv.raised # "none" THEN Raise(self, bv.raised)
        ELSE Return([self EXCEPT
                        !.version = bv.ret,
                        !.fields = Put(self.fields, "Metadata-Version", bv.ret)],
                    NoneV))

\* __delitem__(name): [self, raised, ret]
delitem(self, name) ==
    IF name \notin DOMAIN self.fields THEN Raise(self, "KeyError")
    ELSE Bind([self EXCEPT !.fields = Del(self.fields, name)],
              LAMBDA s : _set_best_version(s))

\* name.replace('-', '_').lower(), on the names the model's callers pass
replace_lower(name) ==
    CASE name = "Author-Email" -> "author_email"
      [] name = "Requires-python" -> "requires_python"
      [] name = "DOWNLOAD_URL" -> "download_url"
      [] name = "X-Custom" -> "x_custom"
      [] name = "Foo" -> "foo"
      [] OTHER -> name      \* already lower case and without '-'

\* _convert_name(name)
_convert_name(name) ==
    IF InTuple(name, _ALL_FIELDS) THEN name
    ELSE LET n == replace_lower(name)
         IN  IF n \in DOMAIN _ATTR2FIELD THEN _ATTR2FIELD[n] ELSE n

\* _default_value that gives 'UNKNOWN' for every field
_default_value_unknown(name) == Str(<<"UNKNOWN">>)

\* _default_value(name)
_default_value(name) ==
    IF InTuple(name, _LISTFIELDS \o _ELEMENTSFIELD) THEN List(<<>>)
    ELSE Str(<<"UNKNOWN">>)

\* _encode_field(value): str(value) of a byte string, of None, of a list
_encode_field(value) ==
    IF IsStr(value) THEN value
    ELSE IF IsNone(value) THEN Str(<<"None">>)
    ELSE Str(<<"[">>
             \o join([i \in 1..Len(value.v) |->
                         <<"'">> \o value.v[i].v \o <<"'">>], ", ")
             \o <<"]">>)

\* _remove_line_prefix with the prefix replaced by '' instead of '\n'
_remove_line_prefix_drops_newline(value) ==
    Str(replace(value.v, _LINE_PREFIX, <<>>))

\* _remove_line_prefix(value): _LINE_PREFIX.sub('\n', value)
_remove_line_prefix(value) == Str(replace(value.v, _LINE_PREFIX, <<"\n">>))

\* the write-side encoding of Description: values.replace('\n', '\n       |')
encode_description(value) == Str(replace(value.v, <<"\n">>, _LINE_PREFIX))

\* ';' in value
HasSemicolon(value) ==
    IF IsStr(value) THEN \E i \in 1..Len(value.v) : value.v[i] = ";"
    ELSE \E i \in 1..Len(value.v) : value.v[i] = Str(<<";">>)

\* _platform(value): [raised, valid, value]
_platform(self, value) ==
    IF ~self.platform_dependant
    THEN [raised |-> "none", valid |-> TRUE, value |-> value]
    ELSE IF IsNone(value)
    THEN [raised |-> "TypeError", valid |-> FALSE, value |-> value]
    ELSE IF ~HasSemicolon(value)
    THEN [raised |-> "none", valid |-> TRUE, value |-> value]
    ELSE IF IsList(value)
    THEN [raised |-> "AttributeError", valid |-> FALSE, value |-> value]
    ELSE LET parts == split(value.v, ";")
         IN  IF Len(parts) # 2
             THEN [raised |-> "ValueError", valid |-> FALSE, value |-> value]
             ELSE LET r == _interpret(parts[2], self.execution_context)
                  IN  [raised |-> r.raised, valid |-> r.ret,
                       value |-> Str(parts[1])]

\* the loop of get over a list value, from element i: [raised, ret]
RECURSIVE get_list(_, _, _)
get_list(self, value, i) ==
    IF i > Len(value) THEN [raised |-> "none", ret |-> <<>>]
    ELSE Bind(_platform(self, value[i]), LAMBDA p :
             IF p.raised # "none" THEN [raised |-> p.raised, ret |-> <<>>]
             ELSE Bind(get_list(self, value, i + 1), LAMBDA rest :
                      IF rest.raised # "none" THEN rest
                      ELSE IF ~p.valid THEN rest
                      ELSE [raised |-> "none",
                            ret |-> <<_encode_field(p.value)>> \o rest.ret]))

\* get(name): [raised, ret]
get(self, fieldname) ==
    LET name == _convert_name(fieldname)
    IN  IF name \notin DOMAIN self.fields
        THEN [raised |-> "none", ret |-> _default_value(name)]
        ELSE LET stored == self.fields[name]
                 p == _platform(self, stored)
                 tail == IF p.raised # "none"
                         THEN [raised |-> p.raised, ret |-> NoneV]
                         ELSE IF ~p.valid
                         THEN [raised |-> "none", ret |-> NoneV]
                         ELSE [raised |-> "none", ret |-> p.value]
        IN  IF InTuple(name, _UNICODEFIELDS)
            THEN [raised |-> "none", ret |-> _encode_field(stored)]
            ELSE IF InTuple(name, _LISTFIELDS)
            THEN IF IsNone(stored) THEN [raised |-> "none", ret |-> List(<<>>)]
                 ELSE LET r == get_list(self,
                                        IF IsStr(stored)   \* a str gives its characters
                                        THEN [i \in 1..Len(chars(stored.v)) |->
                                                 Str(<<chars(stored.v)[i]>>)]
                                        ELSE stored.v, 1)
                      IN  [raised |-> r.raised,
                           ret |-> IF r.raised = "none" THEN List(r.ret)
                                   ELSE NoneV]
            ELSE IF InTuple(name, _ELEMENTSFIELD)
            THEN IF p.raised # "none"
                 THEN [raised |-> p.raised, ret |-> NoneV]
                 ELSE IF ~p.valid THEN [raised |-> "none", ret |-> List(<<>>)]
                 ELSE IF IsStr(p.value)
                 THEN [raised |-> "none",
                       ret |-> List([i \in 1..Len(split(p.value.v, ",")) |->
                                        Str(split(p.value.v, ",")[i])])]
                 ELSE tail
            ELSE tail

\* set that stores a str as it is, for the list fields too
set_no_split(self, fieldname, value) ==
    LET name == _convert_name(fieldname)
        coerced ==
            IF InTuple(name, _UNICODEFIELDS)
            THEN IF name = "Description"
                 THEN _remove_line_prefix(_encode_field(value))
                 ELSE _encode_field(value)
            ELSE value
    IN  Bind([self EXCEPT !.fields = Put(self.fields, name, coerced)],
             LAMBDA s : _set_best_version(s))

\* set(name, value): [self, raised, ret].  The predicate check of
\* _PREDICATE_FIELDS only warns and changes nothing.
set(self, fieldname, value) ==
    LET name == _convert_name(fieldname)
        coerced ==
            IF InTuple(name, _LISTFIELDS \o _ELEMENTSFIELD)
            THEN IF IsStr(value)
                 THEN List([i \in 1..Len(split(value.v, ",")) |->
                               Str(split(value.v, ",")[i])])
                 ELSE value
            ELSE IF InTuple(name, _UNICODEFIELDS)
            THEN IF name = "Description"
                 THEN _remove_line_prefix(_encode_field(value))
                 ELSE _encode_field(value)
            ELSE value
    IN  Bind([self EXCEPT !.fields = Put(self.fields, name, coerced)],
             LAMBDA s : _set_best_version(s))

-----------------------------------------------------------------------------
(* The PKG-INFO file: a sequence of lines [name, value] as _write_field    *)
(* writes them ('%s: %s\n'), and the message the email parser makes of it. *)

Line(name, value) == [name |-> name, value |-> value]

\* '%s' % value
format(value) == _encode_field(value).v

\* the loop of write_file from field i of the field list: [raised, out]
RECURSIVE write_fields(_, _, _)
write_fields(self, fieldlist, i) ==
    IF i > Len(fieldlist) THEN [raised |-> "none", out |-> <<>>]
    ELSE Bind(get(self, fieldlist[i]), LAMBDA g :
    LET field == fieldlist[i]
        values == g.ret
        lines ==
            IF InTuple(field, _ELEMENTSFIELD)
            THEN <<Line(field, join([k \in 1..Len(values.v) |-> values.v[k].v], ","))>>
            ELSE IF ~InTuple(field, _LISTFIELDS)
            THEN IF field = "Description"
                 THEN <<Line(field, encode_description(values).v)>>
                 ELSE <<Line(field, format(values))>>
            ELSE [k \in 1..Len(values.v) |-> Line(field, format(values.v[k]))]
    IN  IF g.raised # "none" THEN [raised |-> g.raised, out |-> <<>>]
        ELSE IF InTuple(field, _ELEMENTSFIELD) /\ ~IsList(values)
        THEN [raised |-> "TypeError", out |-> <<>>]        \* ','.join(None)
        ELSE IF field = "Description" /\ ~IsStr(values)
        THEN [raised |-> "AttributeError", out |-> <<>>]   \* None.replace
        ELSE Bind(write_fields(self, fieldlist, i + 1), LAMBDA rest :
                 [raised |-> rest.raised, out |-> lines \o rest.out]))

\* write_file(fileobject): [self, raised, out]
write_file(self) ==
    Bind(_set_best_version(self), LAMBDA b :
        IF b.raised # "none"
        THEN [self |-> b.self, raised |-> b.raised, out |-> <<>>]
        ELSE Bind(write_fields(b.self, _version2fieldlist(b.self.version).ret, 1),
                  LAMBDA w : [self |-> b.self, raised |-> w.raised, out |-> w.out]))

\* The header value the email parser gives one written line: the physical
\* lines after the first belong to the header while they start with a
\* blank; leading blanks of the first are dropped.  ended: a physical line
\* that is no continuation ends the header block.
header_value(raw) ==
    LET phys == split(raw, "\n")
        cont(k) == Len(phys[k]) > 0 /\ phys[k][1] = " "
        n == IF \A k \in 2..Len(phys) : cont(k) THEN Len(phys)
             ELSE (CHOOSE k \in 2..Len(phys) :
                      ~cont(k) /\ \A j \in 2..(k - 1) : cont(j)) - 1
        first == lstrip(phys[1], {" "})
        more == join([k \in 1..(n - 1) |-> phys[k + 1]], "\n")
    IN  [value |-> IF n = 1 THEN first
                   ELSE IF Len(first) = 0 THEN more
                   ELSE first \o <<"\n">> \o more,
         ended |-> n < Len(phys)]

\* message_from_file(fileob): header name -> the values of its lines, in
\* order; the lines after one that ended the header block are body
RECURSIVE message_from_file(_)
message_from_file(lines) ==
    IF Len(lines) = 0 THEN [k \in {} |-> <<>>]
    ELSE Bind(header_value(lines[1].value), LAMBDA h :
         Bind(IF h.ended THEN [k \in {} |-> <<>>]
              ELSE message_from_file(Tail(lines)), LAMBDA rest :
         LET name == lines[1].name
         IN  [k \in DOMAIN rest \cup {name} |->
                 IF k = name
                 THEN <<Str(h.value)>> \o (IF name \in DOMAIN rest THEN rest[name] ELSE <<>>)
                 ELSE rest[k]]))

\* msg[name] and msg.get_all(name)
msg_get(msg, name) == IF name \in DOMAIN msg THEN msg[name][1] ELSE NoneV
msg_get_all(msg, name) == IF name \in DOMAIN msg THEN List(msg[name]) ELSE NoneV

\* the loop of read_file from field i of the field list: [self, raised, ret]
RECURSIVE read_fields(_, _, _, _)
read_fields(self, msg, fieldlist, i) ==
    IF i > Len(fieldlist) THEN Return(self, NoneV)
    ELSE LET field == fieldlist[i]
         IN  Bind(IF InTuple(field, _LISTFIELDS)
                  THEN set(self, field, msg_get_all(msg, field))
                  ELSE IF ~IsNone(msg_get(msg, field))
                  THEN set(self, field, msg_get(msg, field))
                  ELSE Return(self, NoneV), LAMBDA r :
                  IF r.raised # "none" THEN r
                  ELSE read_fields(r.self, msg, fieldlist, i + 1))

\* read_file(fileob), given the parsed message: [self, raised, ret]
read_file(self, msg) ==
    Bind([self EXCEPT !.version = msg_get(msg, "Metadata-Version")], LAMBDA s1 :
        LET fl == _version2fieldlist(s1.version)
        IN  IF fl.raised # "none" THEN Raise(s1, fl.raised)
            ELSE read_fields(s1, msg, fl.ret, 1))

-----------------------------------------------------------------------------
(* The record as a state machine *)

Self == [fields |-> fields, version |-> version,
         platform_dependant |-> platform_dependant,
         execution_context |-> execution_context]

Called(op, name, raised, ret) ==
    [op |-> op, name |-> name, raised |-> raised, ret |-> ret]

NoParser == <<ops, op_starting, toks, marker>>
Config == <<platform_dependant, execution_context>>

\* metadata.set(n, v) / metadata[n] = v
Set(n, v) ==
    \E r \in {set(Self, n, v)} :
        /\ fields' = r.self.fields
        /\ version' = r.self.version
        /\ last' = Called("set", n, r.raised, NoneV)
        /\ UNCHANGED <<Config, copy, NoParser, desc>>

\* del metadata[n]
Delete(n) ==
    \E r \in {delitem(Self, n)} :
        /\ fields' = r.self.fields
        /\ version' = r.self.version
        /\ last' = Called("del", n, r.raised, NoneV)
        /\ UNCHANGED <<Config, copy, NoParser, desc>>

\* metadata.read_file(fileob), fileob holding the lines `file`
ReadFile(file) ==
    \E msg \in {message_from_file(file)} : \E r \in {read_file(Self, msg)} :
        /\ fields' = r.self.fields
        /\ version' = r.self.version
        /\ last' = Called("read_file", "", r.raised, NoneV)
        /\ UNCHANGED <<Config, copy, NoParser, desc>>

\* metadata.write_file(fileobject); last.ret is what the file object holds
WriteFile ==
    \E r \in {write_file(Self)} :
        /\ fields' = r.self.fields
        /\ version' = r.self.version
        /\ last' = Called("write_file", "", r.raised, File(r.out))
        /\ UNCHANGED <<Config, copy, NoParser, desc>>

\* metadata.get(n) / metadata[n]
Get(n) ==
    \E r \in {get(Self, n)} :
        /\ last' = Called("get", n, r.raised, r.ret)
        /\ UNCHANGED <<fields, version, Config, copy, NoParser, desc>>

\* The calls of the lifecycle model: names (canonical, alias, unknown),
\* values and PKG-INFO files
SetNames == {"Name", "Metadata-Version", "Requires", "Maintainer",
             "requires_python"}
SetValues == {Str(<<"x">>)}
DelNames == {"Name", "Metadata-Version", "Requires", "Maintainer",
             "requires_python"}
Files ==
    { <<>>,
      <<Line("Metadata-Version", <<"2.0">>), Line("Name", <<"x">>)>>,
      <<Line("Metadata-Version", <<"1.0">>), Line("Name", <<"x">>),
        Line("Platform", <<"x">>)>>,
      <<Line("Metadata-Version", <<"1.1">>), Line("Name", <<"x">>),
        Line("Requires", <<"x">>)>> }

InitRecord(pd, ctx) ==
    /\ fields = NewMetadata(pd, ctx).fields
    /\ version = NewMetadata(pd, ctx).version
    /\ platform_dependant = pd
    /\ execution_context = ctx
    /\ last = Called("init", "", "none", NoneV)
    /\ copy = NewMetadata(pd, ctx)
    /\ ops = <<>>
    /\ op_starting = TRUE
    /\ toks = <<>>
    /\ marker = <<>>
    /\ desc = <<>>

Init == InitRecord(FALSE, NoCtx)

Next ==
    \/ \E n \in SetNames, v \in SetValues : Set(n, v)
    \/ \E n \in DelNames : Delete(n)
    \/ \E f \in Files : ReadFile(f)
    \/ WriteFile

Spec == Init /\ [][Next]_vars

-----------------------------------------------------------------------------
(* Version inference over the record's lifecycle *)

V10 == Str(<<"1.0">>)
V11 == Str(<<"1.1">>)
V12 == Str(<<"1.2">>)

Has11(f) == \E k \in DOMAIN f : InTuple(k, _314_MARKERS)
Has12(f) == \E k \in DOMAIN f : InTuple(k, _345_MARKERS)
Only10(f) == \A k \in DOMAIN f : InTuple(k, _241_FIELDS)

\* C1: in every reachable state of the record (fresh, and after any
\* sequence of set, delete, read_file and write_file calls, returned or
\* raised) the version is the one the present keys imply (1.0 without
\* marker keys, 1.1 with a 1.1-marker key, 1.2 with a 1.2-marker key), and
\* no state holds a 1.1-marker key and a 1.2-marker key together.
C1_VersionMatchesKeys ==
    /\ ~(Has11(fields) /\ Has12(fields))
    /\ version = IF Has11(fields) THEN V11
                 ELSE IF Has12(fields) THEN V12 ELSE V10

\* C2: a set that raises the version conflict leaves fields and version
\* exactly as they were before the call.
C2_ConflictLeavesRecordIntact ==
    [][(last'.op = "set" /\ last'.raised = "MetadataConflictError")
         => (fields' = fields /\ version' = version)]_vars

-----------------------------------------------------------------------------
(* Setting and deleting the version-marker fields, every one of them *)

MarkerNames == {"Name", "Obsoletes", "Provides", "Requires",
                "Provides-Dist", "Requires-Dist", "Requires-Python",
                "Obsoletes-Dist", "Requires-External", "Maintainer",
                "Maintainer-email"}

NextVersion ==
    \/ \E n \in MarkerNames, v \in SetValues : Set(n, v)
    \/ \E n \in {"Name", "Requires", "Maintainer"} : Delete(n)

SpecVersion == Init /\ [][NextVersion]_vars

\* the marker fields as the specification lists them
Spec11Markers == {"Obsoletes", "Provides", "Requires"}
Spec12Markers == {"Provides-Dist", "Requires-Dist", "Requires-Python",
                  "Obsoletes-Dist", "Requires-External", "Maintainer",
                  "Maintainer-email"}

\* C3: setting a 1.2-marker field on a record whose present fields are all
\* 1.0 fields returns and raises the version to 1.2; a set after which a
\* 1.1-marker field and a 1.2-marker field are both present raises the
\* version conflict, whichever of the two was there first.
C3_MarkerRaisesVersion ==
    [][last'.op = "set" =>
         /\ (last'.name \in Spec12Markers /\ Only10(fields))
               => (last'.raised = "none" /\ version' = V12
                   /\ last'.name \in DOMAIN fields')
         /\ (/\ DOMAIN fields' \cap Spec11Markers # {}
             /\ DOMAIN fields' \cap Spec12Markers # {})
               => last'.raised = "MetadataConflictError"]_vars

\* a 1.2-marker field raised the version to 1.2, and the set of a
\* 1.1-marker field after it raised the conflict
C3_Witness ==
    /\ last.op = "set"
    /\ last.name \in Spec11Markers
    /\ last.raised = "MetadataConflictError"
    /\ version = V12

-----------------------------------------------------------------------------
(* _interpret as a state machine: tokenize hands the marker's tokens to    *)
(* _CHAIN.eat one by one, then _CHAIN.result evaluates what eat built.     *)
(* `marker` is the marker as a list of operations joined by connectives.   *)

\* the text of one operation of the model's markers
OpText(o) ==
    CASE o = "platform_is_linux2" -> <<"sys", ".", "platform", " ", "==", " ", "'linux2'">>
      [] o = "os_is_posix" -> <<"os", ".", "name", " ", "==", " ", "'posix'">>
      [] o = "python_ge_26" -> <<"python_version", " ", ">=", " ", "'2.6'">>
      [] o = "foo_is_x" -> <<"foo", " ", "==", " ", "'x'">>
      [] o = "linux2_is_platform" -> <<"'linux2'", " ", "==", " ", "sys", ".", "platform">>
      [] o = "two_literals" -> <<"'linux2'", " ", "==", " ", "'win32'">>
      [] o = "two_names" -> <<"sys", ".", "platform", " ", "==", " ", "os", ".", "name">>
      [] o = "no_right" -> <<"sys", ".", "platform", " ", "==">>
      [] o = "no_left" -> <<"==", " ", "'linux2'">>
      [] o = "assign" -> <<"sys", ".", "platform", " ", "=", " ", "'linux2'">>
      [] o = "platform_in" -> <<"sys", ".", "platform", " ", "in", " ", "'linux2'">>
      [] o = "platform_not_in" -> <<"sys", ".", "platform", " ", "not", " ", "in", " ", "'win32'">>
      [] o = "name_is_empty" -> <<"os", ".", "name", " ", "!=", " ", "''">>
      [] o = "dollar" -> <<"sys", ".", "platform", " ", "==", " ", "$">>
      [] o = "number_first" -> <<"26", " ", "<=", " ", "python_version">>
      [] o = "empty" -> <<>>

\* the text of a marker: operations and connectives, blank-separated
RECURSIVE MarkerText(_)
MarkerText(m) ==
    IF Len(m) = 0 THEN <<>>
    ELSE IF Len(m) = 1 THEN OpText(m[1])
    ELSE OpText(m[1]) \o <<" ", m[2], " ">> \o MarkerText(SubSeq(m, 3, Len(m)))

MaxChain == 3

ChainOps == {"platform_is_linux2", "os_is_posix", "python_ge_26", "foo_is_x"}
SingleOps == {"linux2_is_platform", "two_literals", "two_names", "no_right",
              "no_left", "assign", "platform_in", "platform_not_in",
              "name_is_empty", "dollar", "number_first", "empty"}
Connectives == {"and", "or"}

ChainsOf(k) ==
    {m \in [1..(2 * k - 1) -> ChainOps \cup Connectives] :
        \A i \in 1..(2 * k - 1) :
            IF i % 2 = 1 THEN m[i] \in ChainOps ELSE m[i] \in Connectives}

\* an operation, a connective and a right side that cannot be evaluated:
\* two literals, or nothing at all after the connective
DanglingMarkers ==
    {<<l, c, r>> : l \in {"platform_is_linux2", "python_ge_26"},
                   c \in Connectives, r \in {"two_literals", "empty"}}

\* connectives with nothing before them, and two connectives in a row
ConnectiveMarkers ==
    {<<"empty", c, r>> : c \in Connectives, r \in {"empty", "os_is_posix"}}
        \cup {<<"os_is_posix", c, "empty", d, "python_ge_26">> :
                  c \in Connectives, d \in Connectives}

Markers ==
    UNION {ChainsOf(k) : k \in 1..MaxChain} \cup {<<o>> : o \in SingleOps}
        \cup DanglingMarkers \cup ConnectiveMarkers

\* execution contexts: None, or a mapping that overrides some variables
Overrides ==
    {[sys |-> p, os |-> o, py |-> v] :
        p \in {"", "win32"}, o \in {"", "nt"}, v \in {"", "2.5"}}
ContextOf(c) ==
    Ctx([n \in {k \in {<<"sys", ".", "platform">>, <<"os", ".", "name">>,
                       <<"python_version">>} :
                   CASE k = <<"sys", ".", "platform">> -> c.sys # ""
                     [] k = <<"os", ".", "name">> -> c.os # ""
                     [] OTHER -> c.py # ""} |->
            CASE n = <<"sys", ".", "platform">> -> <<c.sys>>
              [] n = <<"os", ".", "name">> -> <<c.os>>
              [] OTHER -> <<c.py>>])
Contexts == {NoCtx} \cup {ContextOf(c) : c \in Overrides}

InitMarker ==
    \E m \in Markers, ctx \in Contexts :
        /\ marker = m
        /\ execution_context = ctx
        /\ toks = tokenize(str_strip(MarkerText(m)))
        /\ ops = NewChain(ctx).ops
        /\ op_starting = NewChain(ctx).op_starting
        /\ last = Called("_interpret", "", "none", NoneV)
        /\ fields = EmptyDict
        /\ version = NoneV
        /\ platform_dependant = TRUE
        /\ copy = NewMetadata(TRUE, ctx)
        /\ desc = <<>>

Chain == [ops |-> ops, op_starting |-> op_starting,
          execution_context |-> execution_context]

\* tokenize calls operations.eat with the next token; an exception of eat
\* ends tokenize and _interpret
Eat ==
    /\ toks # <<>>
    /\ last.raised = "none"
    /\ LET r == eat(Chain, Head(toks))
       IN  /\ ops' = r.self.ops
           /\ op_starting' = r.self.op_starting
           /\ toks' = IF r.raised = "none" THEN Tail(toks) ELSE <<>>
           /\ last' = Called("eat", Head(toks).val, r.raised, NoneV)
    /\ UNCHANGED <<fields, version, Config, copy, marker, desc>>

\* return operations.result()
Result ==
    /\ toks = <<>>
    /\ last.op = "eat"
    /\ last.raised = "none"
    /\ LET r == result(Chain)
       IN  last' = Called("result", "", r.raised, Bool(r.ret))
    /\ UNCHANGED <<fields, version, Config, copy, NoParser, desc>>

NextMarker == Eat \/ Result

SpecMarker == InitMarker /\ [][NextMarker]_vars

-----------------------------------------------------------------------------
(* Claims about the marker evaluator *)

\* what _interpret gives for one operation alone, in the current context
OpValue(o) == _interpret(OpText(o), execution_context)

\* the _Operation node eat builds from one operation alone
Leaf(o) ==
    eat_all(NewChain(execution_context), tokenize(OpText(o)), 1).self.ops[1]

\* the value of the first k operations of marker m, folded from the left
RECURSIVE LeftFold(_, _)
LeftFold(m, k) ==
    IF k = 1 THEN OpValue(m[1]).ret
    ELSE IF m[2 * k - 2] = "and"
         THEN LeftFold(m, k - 1) /\ OpValue(m[2 * k - 1]).ret
         ELSE LeftFold(m, k - 1) \/ OpValue(m[2 * k - 1]).ret

\* the tree ((o1 c1 o2) c2 o3) ... of the first k operations of marker m
RECURSIVE LeftTree(_, _)
LeftTree(m, k) ==
    IF k = 1 THEN Leaf(m[1])
    ELSE IF m[2 * k - 2] = "and"
         THEN [NewAND(LeftTree(m, k - 1)) EXCEPT !.right = Leaf(m[2 * k - 1])]
         ELSE [NewOR(LeftTree(m, k - 1)) EXCEPT !.right = Leaf(m[2 * k - 1])]

NOps(m) == (Len(m) + 1) \div 2
Evaluable(m) == \A i \in 1..NOps(m) : OpValue(m[2 * i - 1]).raised = "none"

\* C6: for a chain o1 c1 o2 c2 ... on of operations that each evaluate to
\* a boolean, the parser builds the left-nested tree ((o1 c1 o2) c2 o3) ...
\* as the only element of ops, and the result is the left fold of the
\* operations' values, with no precedence of `and` over `or`.
C6_LeftFold ==
    (last.op = "result" /\ Len(marker) > 0 /\ marker[1] # "empty"
     /\ Evaluable(marker))
        => /\ ops = <<LeftTree(marker, NOps(marker))>>
           /\ last.raised = "none"
           /\ last.ret = Bool(LeftFold(marker, NOps(marker)))

\* `a or b and c` with a true and c false is false: (a or b) and c
C6_Witness ==
    /\ last.op = "result"
    /\ marker = <<"platform_is_linux2", "or", "os_is_posix", "and", "python_ge_26">>
    /\ OpValue("platform_is_linux2").ret
    /\ ~OpValue("python_ge_26").ret
    /\ last.ret = Bool(FALSE)

\* a quoted string literal and a recognized variable name, as the
\* specification defines them
IsLiteral(value) ==
    /\ IsStr(value)
    /\ LET c == chars(value.v)
       IN  Len(c) >= 2 /\ c[1] = c[Len(c)] /\ c[1] \in {"'", "\""}
IsVariable(value) ==
    /\ IsStr(value)
    /\ value.v \in {<<"sys", ".", "platform">>, <<"python_version">>,
                    <<"python_full_version">>, <<"os", ".", "name">>,
                    <<"platform", ".", "version">>,
                    <<"platform", ".", "machine">>}

\* C7: a single operation evaluates to a boolean only when exactly one
\* side is a quoted string literal and the other a recognized variable;
\* with two literals, or with no recognized variable on either side (a
\* missing side included), the evaluation raises.
C7_OperationSides ==
    (last.op = "result" /\ Len(marker) = 1 /\ Len(ops) = 1
     /\ ops[1].kind = "Operation")
        => LET l == ops[1].left
               r == ops[1].right
           IN  /\ last.raised = "none"
                     => \/ IsLiteral(l) /\ ~IsLiteral(r) /\ IsVariable(r)
                        \/ IsLiteral(r) /\ ~IsLiteral(l) /\ IsVariable(l)
               /\ ((IsLiteral(l) /\ IsLiteral(r))
                   \/ (~IsVariable(l) /\ ~IsVariable(r)))
                     => last.raised # "none"

\* the operation 'linux2' == 'win32' was evaluated and raised
C7_Witness ==
    /\ last.op = "result"
    /\ marker = <<"two_literals">>
    /\ ops[1].left = Str(<<"'linux2'">>)
    /\ ops[1].right = Str(<<"'win32'">>)
    /\ last.raised = "SyntaxError"

-----------------------------------------------------------------------------
(* get on a platform-dependant record whose values carry markers *)

GetNames == {"Name", "Author", "Platform"}
GetMarkers == {<<"platform_is_linux2">>, <<"two_literals">>, <<"foo_is_x">>,
               <<"assign">>, <<"dollar">>,
               <<"os_is_posix", "and", "python_ge_26">>}
GetValues ==
    {Str(<<"linux">>)}
        \cup {Str(<<"linux", ";", " ">> \o MarkerText(m)) : m \in GetMarkers}
GetContexts ==
    {NoCtx, ContextOf([sys |-> "win32", os |-> "", py |-> ""]),
     ContextOf([sys |-> "", os |-> "", py |-> "2.5"])}

InitGet == \E ctx \in GetContexts : InitRecord(TRUE, ctx)

NextGet ==
    \/ \E n \in GetNames, v \in GetValues : Set(n, v)
    \/ \E n \in GetNames : Get(n)

SpecGet == InitGet /\ [][NextGet]_vars

\* the fields the specification calls scalar text: one str, no list
ScalarText(name) == ~InTuple(name, _LISTFIELDS \o _ELEMENTSFIELD)

\* a stored str of the form `value; marker`
HasMarker(stored) ==
    IsStr(stored) /\ HasSemicolon(stored) /\ Len(split(stored.v, ";")) = 2
BareValue(stored) == Str(split(stored.v, ";")[1])
MarkerOf(stored) == _interpret(split(stored.v, ";")[2], execution_context)

\* C4: on a platform-dependant record, get of a scalar-text field whose
\* stored value is `value; marker` returns the bare value when the marker
\* evaluates true and what get returns for an unset scalar field, the
\* sentinel "UNKNOWN", when it evaluates false.
C4_MarkerFiltersScalar ==
    (/\ last.op = "get"
     /\ platform_dependant
     /\ ScalarText(last.name)
     /\ last.name \in DOMAIN fields
     /\ HasMarker(fields[last.name])
     /\ MarkerOf(fields[last.name]).raised = "none")
        => /\ last.raised = "none"
           /\ last.ret = IF MarkerOf(fields[last.name]).ret
                         THEN BareValue(fields[last.name])
                         ELSE Str(<<"UNKNOWN">>)

\* a stored value, or an element of a stored list, whose marker fails to
\* evaluate
MarkerFails(stored) ==
    IF IsList(stored)
    THEN \E i \in 1..Len(stored.v) :
             HasMarker(stored.v[i]) /\ MarkerOf(stored.v[i]).raised # "none"
    ELSE HasMarker(stored) /\ MarkerOf(stored).raised # "none"

\* C5: get of a field whose marker (or the marker of one of its list
\* elements) fails to evaluate does not raise; it returns normally.
C5_FailingMarkerFilteredOut ==
    (/\ last.op = "get"
     /\ platform_dependant
     /\ last.name \in DOMAIN fields
     /\ MarkerFails(fields[last.name]))
        => last.raised = "none"

-----------------------------------------------------------------------------
(* Writing a record and reading the written text into a fresh record *)

\* fresh = DistributionMetadata(); fresh.read_file(f), f holding what the
\* last write_file wrote
ReadBack ==
    /\ last.op = "write_file"
    /\ last.raised = "none"
    /\ \E msg \in {message_from_file(last.ret.v)} :
       \E r \in {read_file(NewMetadata(FALSE, NoCtx), msg)} :
           /\ copy' = r.self
           /\ last' = Called("read_back", "", r.raised, last.ret)
    /\ UNCHANGED <<fields, version, Config, NoParser, desc>>

CodecNames == {"Name", "Keywords", "Platform", "Description", "Requires",
               "Maintainer", "Download-URL"}
CodecValues == {Str(<<"x">>), Str(<<"a", ",", "b">>)}

\* the record is built and written, and the run ends with the reading back
NextCodec ==
    \/ \E n \in CodecNames, v \in CodecValues :
           last.op # "read_back" /\ Set(n, v)
    \/ last.op # "read_back" /\ WriteFile
    \/ ReadBack

SpecCodec == Init /\ [][NextCodec]_vars

\* C8: for a record built only by set calls on 1.0 fields, write_file and
\* then read_file of the written text into a fresh record succeed, and get
\* of every 1.0 field gives the same result on the fresh record as on the
\* original, the fields left unset included.
C8_RoundTrip10 ==
    (last.op = "read_back" /\ \A k \in DOMAIN fields : InTuple(k, _241_FIELDS))
        => /\ last.raised = "none"
           /\ \A i \in 1..Len(_241_FIELDS) :
                  get(copy, _241_FIELDS[i]) = get(Self, _241_FIELDS[i])

\* C10: write_file of a record of version 1.1 or 1.2 on which Download-URL
\* was never set writes no Download-URL line.
C10_DownloadURLOnlyWhenSet ==
    (/\ last.op = "write_file"
     /\ last.raised = "none"
     /\ version \in {V11, V12}
     /\ "Download-URL" \notin DOMAIN fields)
        => \A i \in 1..Len(last.ret.v) : last.ret.v[i].name # "Download-URL"

-----------------------------------------------------------------------------
(* The Description encoding *)

MaxPieces == 3

\* what descriptions are made of: a letter, a newline, a blank, a bar and
\* the continuation prefix itself
Pieces == {<<"a">>, <<"\n">>, <<" ">>, <<"|">>, _LINE_PREFIX}

RECURSIVE Flatten(_)
Flatten(ps) == IF Len(ps) = 0 THEN <<>> ELSE Head(ps) \o Flatten(Tail(ps))

Descriptions ==
    {Flatten(ps) : ps \in UNION {[1..k -> Pieces] : k \in 0..MaxPieces}}

InitDesc ==
    \E d \in Descriptions :
        /\ desc = d
        /\ fields = EmptyDict
        /\ version = NoneV
        /\ platform_dependant = FALSE
        /\ execution_context = NoCtx
        /\ last = Called("init", "", "none", NoneV)
        /\ copy = NewMetadata(FALSE, NoCtx)
        /\ ops = <<>>
        /\ op_starting = TRUE
        /\ toks = <<>>
        /\ marker = <<>>

\* values = values.replace('\n', '\n       |') of write_file, on desc
Encode ==
    /\ last.op = "init"
    /\ last' = Called("encode", "", "none", encode_description(Str(desc)))
    /\ UNCHANGED <<fields, version, Config, copy, NoParser, desc>>

\* _remove_line_prefix on what Encode gave
Decode ==
    /\ last.op = "encode"
    /\ last' = Called("decode", "", "none", _remove_line_prefix(last.ret))
    /\ UNCHANGED <<fields, version, Config, copy, NoParser, desc>>

NextDesc ==
    \/ Encode
    \/ Decode
    \/ last.op = "init" /\ Set("Description", Str(desc))
    \/ last.op = "set" /\ WriteFile
    \/ ReadBack

SpecDesc == InitDesc /\ [][NextDesc]_vars

\* the header parser keeps the first line of a value from its first
\* character on when that is no blank and no newline
KeepsHead(d) == Len(d) = 0 \/ d[1] \notin {" ", "\n"}

-----------------------------------------------------------------------------
(* Reading PKG-INFO files *)

\* the Metadata-Version headers of the files read; <<>> is a file without one
ReadVersions == {<<>>, <<"1.0">>, <<"1.1">>, <<"1.2">>, <<"2.0">>}

\* the other headers a file may hold, in the order they are written
ReadHeaders == <<Line("Name", <<"x">>), Line("Platform", <<"x">>),
                 Line("Keywords", <<"a", ",", "b">>), Line("Requires", <<"x">>),
                 Line("Maintainer", <<"x">>)>>

\* the headers of ReadHeaders from i on that are in the set S of indices
RECURSIVE PickHeaders(_, _)
PickHeaders(S, i) ==
    IF i > Len(ReadHeaders) THEN <<>>
    ELSE (IF i \in S THEN <<ReadHeaders[i]>> ELSE <<>>) \o PickHeaders(S, i + 1)

ReadFiles ==
    {(IF v = <<>> THEN <<>> ELSE <<Line("Metadata-Version", v)>>)
         \o PickHeaders(S, 1) :
        v \in ReadVersions, S \in SUBSET (1..Len(ReadHeaders))}

\* the records read into: a fresh one, and one with a Name
ReadInto ==
    {NewMetadata(FALSE, NoCtx),
     set(NewMetadata(FALSE, NoCtx), "Name", Str(<<"y">>)).self}

\* a record and an open file; copy keeps the record as it is before the read
InitRead ==
    \E f \in ReadFiles, m \in ReadInto :
        /\ fields = m.fields
        /\ version = m.version
        /\ platform_dependant = m.platform_dependant
        /\ execution_context = m.execution_context
        /\ copy = m
        /\ last = Called("open", "", "none", File(f))
        /\ ops = <<>>
        /\ op_starting = TRUE
        /\ toks = <<>>
        /\ marker = <<>>
        /\ desc = <<>>

\* metadata.read_file(fileob) on the open file
ReadOpened ==
    /\ last.op = "open"
    /\ \E msg \in {message_from_file(last.ret.v)} :
       \E r \in {read_file(Self, msg)} :
           /\ fields' = r.self.fields
           /\ version' = r.self.version
           /\ last' = Called("read_file", "", r.raised, last.ret)
    /\ UNCHANGED <<Config, copy, NoParser, desc>>

NextRead == ReadOpened

SpecRead == InitRead /\ [][NextRead]_vars

\* the headers of a file, and the version its Metadata-Version header declares
HasHeader(file, name) == \E i \in 1..Len(file) : file[i].name = name
Declared(file) ==
    IF HasHeader(file, "Metadata-Version")
    THEN Str(file[CHOOSE i \in 1..Len(file) : file[i].name = "Metadata-Version"].value)
    ELSE NoneV
FieldsOf(v) ==
    IF v = V10 THEN _241_FIELDS ELSE IF v = V11 THEN _314_FIELDS ELSE _345_FIELDS

\* C11: after read_file into a fresh record, every field of the declared
\* version's field list that has no header in the file is an absent key of
\* fields, list fields included.
C11_HeaderlessFieldsStayUnset ==
    (/\ last.op = "read_file"
     /\ last.raised = "none"
     /\ copy.fields = EmptyDict)
        => \A i \in 1..Len(FieldsOf(Declared(last.ret.v))) :
               LET field == FieldsOf(Declared(last.ret.v))[i]
               IN  ~HasHeader(last.ret.v, field) => field \notin DOMAIN fields

\* C16: read_file of a file whose Metadata-Version header is missing or is
\* none of 1.0, 1.1, 1.2 raises MetadataUnrecognizedVersionError and sets
\* no field: fields is as it was before the call.
C16_UnrecognizedVersionRejected ==
    (last.op = "read_file" /\ Declared(last.ret.v) \notin {V10, V11, V12})
        => /\ last.raised = "MetadataUnrecognizedVersionError"
           /\ fields = copy.fields

\* a file that declares 2.0 and holds a Name was read into a fresh record
\* and left it without a Name
C16_Witness ==
    /\ last.op = "read_file"
    /\ Declared(last.ret.v) = Str(<<"2.0">>)
    /\ HasHeader(last.ret.v, "Name")
    /\ copy.fields = EmptyDict
    /\ last.raised = "MetadataUnrecognizedVersionError"
    /\ "Name" \notin DOMAIN fields

-----------------------------------------------------------------------------
(* List fields: values given as comma-separated str or as list *)

MaxElems == 2

\* elements of list values, plain and with a marker
Elems == {<<"a">>, <<"b">>,
          <<"c", ";", " ">> \o OpText("platform_is_linux2"),
          <<"d", ";", " ">> \o OpText("python_ge_26"),
          <<"e", ";", " ">> \o OpText("foo_is_x")}
ElemLists == UNION {[1..k -> Elems] : k \in 0..MaxElems}

\* a list of elements as the list of str and as the comma-separated str
AsList(l) == List([i \in 1..Len(l) |-> Str(l[i])])
AsStr(l) == Str(join(l, ","))

ListNames == {"Platform", "Keywords"}

InitList ==
    \E pd \in BOOLEAN, ctx \in GetContexts : InitRecord(pd, ctx)

\* metadata.set(n, v); last.ret keeps the value passed
SetValue(n, v) ==
    \E r \in {set(Self, n, v)} :
        /\ fields' = r.self.fields
        /\ version' = r.self.version
        /\ last' = Called("set", n, r.raised, v)
        /\ UNCHANGED <<Config, copy, NoParser, desc>>

\* one field is set, then read and written
NextList ==
    \/ \E n \in ListNames, l \in ElemLists :
           last.op = "init" /\ SetValue(n, AsList(l))
    \/ \E n \in ListNames, l \in ElemLists :
           last.op = "init" /\ SetValue(n, AsStr(l))
    \/ \E n \in ListNames : last.op # "init" /\ Get(n)
    \/ last.op # "init" /\ WriteFile

SpecList == InitList /\ [][NextList]_vars

\* the fields the specification calls list categories
ListCategory(name) == InTuple(name, _LISTFIELDS \o _ELEMENTSFIELD)

\* the elements of l that have no marker or a true one, without the marker
RECURSIVE Kept(_)
Kept(l) ==
    IF Len(l) = 0 THEN <<>>
    ELSE (IF ~HasMarker(Head(l)) THEN <<Head(l)>>
          ELSE IF MarkerOf(Head(l)).ret THEN <<BareValue(Head(l))>>
          ELSE <<>>) \o Kept(Tail(l))

\* C12: on a platform-dependant record, get of a list-category field gives
\* exactly the stored elements that have no marker or whose marker
\* evaluates true, in their order and without the marker.
C12_ListFilteredPerElement ==
    (/\ last.op = "get"
     /\ platform_dependant
     /\ ListCategory(last.name)
     /\ last.name \in DOMAIN fields
     /\ IsList(fields[last.name])
     /\ ~MarkerFails(fields[last.name]))
        => /\ last.raised = "none"
           /\ last.ret = List(Kept(fields[last.name].v))

\* l is the list of the comma-separated parts of the str value
PartsOf(l, value) ==
    /\ IsList(l)
    /\ \A i \in 1..Len(l.v) :
           IsStr(l.v[i]) /\ \A k \in 1..Len(l.v[i].v) : l.v[i].v[k] # ","
    /\ join([i \in 1..Len(l.v) |-> l.v[i].v], ",") = value.v

\* the lines of a written file with the header name
LinesOf(file, name) == SelectSeq(file, LAMBDA line : line.name = name)

\* C14: a list or element-list field set from a comma-separated str is
\* stored as the list of its parts and one set from a list as that list;
\* get gives the stored list back (markers aside); and write_file writes
\* Keywords as one line, the elements joined by commas.
C14_ListFromStrOrList ==
    /\ (last.op = "set" /\ ListCategory(last.name))
           => IF IsStr(last.ret)
              THEN PartsOf(fields[last.name], last.ret)
              ELSE fields[last.name].t = "list" /\ fields[last.name] = last.ret
    /\ (/\ last.op = "get"
        /\ ListCategory(last.name)
        /\ last.name \in DOMAIN fields
        /\ (platform_dependant
                => \A i \in 1..Len(fields[last.name].v) :
                       ~HasSemicolon(fields[last.name].v[i])))
           => /\ last.raised = "none"
              /\ last.ret = fields[last.name]
    /\ (/\ last.op = "write_file"
        /\ last.raised = "none"
        /\ "Keywords" \in DOMAIN fields)
           => LinesOf(last.ret.v, "Keywords")
                  = <<Line("Keywords",
                           join([i \in 1..Len(fields["Keywords"].v) |->
                                    fields["Keywords"].v[i].v], ","))>>

\* Keywords holding a and b was written as the one line `Keywords: a,b`
C14_Witness ==
    /\ last.op = "write_file"
    /\ "Keywords" \in DOMAIN fields
    /\ fields["Keywords"] = AsList(<<<<"a">>, <<"b">>>>)
    /\ LinesOf(last.ret.v, "Keywords") = <<Line("Keywords", <<"a", ",", "b">>)>>

-----------------------------------------------------------------------------
(* check, and the names set, get and del take *)

\* the loop of check over attrs from i: [raised, ret], ret the list missing
RECURSIVE check_from(_, _, _)
check_from(self, attrs, i) ==
    IF i > Len(attrs) THEN [raised |-> "none", ret |-> <<>>]
    ELSE Bind(get(self, attrs[i]), LAMBDA value :
             IF value.raised # "none" THEN [raised |-> value.raised, ret |-> <<>>]
             ELSE Bind(check_from(self, attrs, i + 1), LAMBDA rest :
                      IF rest.raised # "none" THEN rest
                      ELSE IF value.ret = Str(<<"UNKNOWN">>)
                      THEN [raised |-> "none", ret |-> <<attrs[i]>> \o rest.ret]
                      ELSE rest))

\* check(): [raised, ret], ret the list missing.  The warnings are those
\* of docutils on self['Description'], which is read and cannot raise.
check(self) ==
    Bind(check_from(self, <<"Name", "Version", "Home-page">>, 1), LAMBDA m :
        IF m.raised # "none" THEN m
        ELSE IF get(self, "Description").raised # "none"
        THEN [raised |-> get(self, "Description").raised, ret |-> <<>>]
        ELSE m)

\* metadata.check(); last.ret is the list missing
Check ==
    \E r \in {check(Self)} :
        /\ last' = Called("check", "", r.raised, [t |-> "names", v |-> r.ret])
        /\ UNCHANGED <<fields, version, Config, copy, NoParser, desc>>

\* values: plain, with a marker that is false on linux2, with a marker of
\* two literals
PlainValue == Str(<<"x">>)
FalseMarkerValue ==
    Str(<<"linux", ";", " ", "sys", ".", "platform", " ", "==", " ", "'win32'">>)
BadMarkerValue == Str(<<"linux", ";", " ">> \o OpText("two_literals"))

\* names: canonical, alias, unknown
AccessSets ==
    ({"Name", "url"} \X {PlainValue, FalseMarkerValue, BadMarkerValue})
        \cup ({"Requires", "requires_python", "X-Custom"} \X {PlainValue})
AccessGetNames == {"Name", "url", "Version", "Keywords", "Requires",
                   "requires_python", "X-Custom", "Foo"}
AccessDelNames == {"Name", "url", "Home-page", "Requires", "requires_python",
                   "Requires-Python", "X-Custom", "x_custom"}

InitAccess == \E pd \in BOOLEAN : InitRecord(pd, NoCtx)

NextAccess ==
    \/ \E p \in AccessSets : Set(p[1], p[2])
    \/ \E n \in AccessGetNames : Get(n)
    \/ \E n \in AccessDelNames : Delete(n)
    \/ Check

SpecAccess == InitAccess /\ [][NextAccess]_vars

\* C13: get of a name whose canonical name is no key of fields gives the
\* default of the field's category: the empty list for the list categories
\* and "UNKNOWN" for the others; on a fresh record and after a delete.
C13_AbsentGivesDefault ==
    (last.op = "get" /\ _convert_name(last.name) \notin DOMAIN fields)
        => /\ last.raised = "none"
           /\ last.ret = IF ListCategory(_convert_name(last.name))
                         THEN List(<<>>)
                         ELSE Str(<<"UNKNOWN">>)

\* get of Requires on a record that holds other fields but no Requires
C13_Witness ==
    /\ last.op = "get"
    /\ last.name = "Requires"
    /\ "Requires" \notin DOMAIN fields
    /\ version = V10
    /\ last.ret = List(<<>>)

\* a required field at its default or unset value: no key, 'UNKNOWN', or
\* filtered out by a marker that is false or does not evaluate
Unset(name) ==
    \/ name \notin DOMAIN fields
    \/ fields[name] = Str(<<"UNKNOWN">>)
    \/ /\ platform_dependant
       /\ HasMarker(fields[name])
       /\ (MarkerOf(fields[name]).raised # "none" \/ ~MarkerOf(fields[name]).ret)

\* C15: check does not raise, and the missing fields it gives are exactly
\* those of Name, Version, Home-page that are unset or at their default
\* value, a value filtered out by a false or malformed marker included.
C15_CheckReportsUnset ==
    last.op = "check"
        => /\ last.raised = "none"
           /\ last.ret.v = SelectSeq(<<"Name", "Version", "Home-page">>, Unset)

\* the canonical name of a name as the specification gives it: the field
\* of an alias, and the name itself otherwise
Canonical(name) ==
    IF InTuple(name, _ALL_FIELDS) THEN name
    ELSE IF name \in DOMAIN _ATTR2FIELD THEN _ATTR2FIELD[name]
    ELSE name

\* C17: _convert_name gives a canonical name itself, an alias its field and
\* an unknown name itself, unchanged; it is idempotent; and a value set
\* under a name is stored under its canonical name.
C17_CanonicalNames ==
    last.op = "set"
        => /\ _convert_name(last.name) = Canonical(last.name)
           /\ _convert_name(_convert_name(last.name)) = _convert_name(last.name)
           /\ Canonical(last.name) \in DOMAIN fields

\* C18: del of a name whose canonical name is a key of fields succeeds,
\* removes the key, and leaves version as inferred from the keys that
\* remain; the name may be canonical or an alias.
C18_DeleteReinfersVersion ==
    [][(last'.op = "del" /\ Canonical(last'.name) \in DOMAIN fields)
          => /\ last'.raised = "none"
             /\ Canonical(last'.name) \notin DOMAIN fields'
             /\ version' = IF Has11(fields') THEN V11
                           ELSE IF Has12(fields') THEN V12 ELSE V10]_vars

-----------------------------------------------------------------------------
(* Variables and short circuit in markers *)

\* the value of a variable: the override of the execution context when it
\* has one for the name, the built-in value otherwise
Resolved(n) ==
    IF n \in DOMAIN execution_context.v THEN execution_context.v[n]
    ELSE _VARS(n)

\* the variable and the literal an equality operation compares
VarOf(o) ==
    IF o = "os_is_posix" THEN <<"os", ".", "name">>
    ELSE <<"sys", ".", "platform">>
LitOf(o) == IF o = "os_is_posix" THEN <<"posix">> ELSE <<"linux2">>

\* C19: an operation that compares a variable with a literal compares the
\* override of the execution context when there is one for the variable,
\* and the built-in value only when there is none.
C19_OverrideFirst ==
    (/\ last.op = "result"
     /\ Len(marker) = 1
     /\ marker[1] \in {"platform_is_linux2", "os_is_posix", "linux2_is_platform"})
        => /\ last.raised = "none"
           /\ last.ret = Bool(Resolved(VarOf(marker[1])) = LitOf(marker[1]))

\* sys.platform == 'linux2' is false under an override of sys.platform,
\* though the built-in value is linux2
C19_Witness ==
    /\ last.op = "result"
    /\ marker = <<"platform_is_linux2">>
    /\ <<"sys", ".", "platform">> \in DOMAIN execution_context.v
    /\ execution_context.v[<<"sys", ".", "platform">>] = <<"win32">>
    /\ _VARS(<<"sys", ".", "platform">>) = <<"linux2">>
    /\ last.ret = Bool(FALSE)

\* C20: for `l and r` and `l or r` with r an operation that cannot be
\* evaluated, no error is raised when l is false (and) or true (or), and
\* the result is that of l; otherwise the error of r is raised.
C20_ShortCircuit ==
    (/\ last.op = "result"
     /\ Len(marker) = 3
     /\ OpValue(marker[1]).raised = "none"
     /\ OpValue(marker[3]).raised # "none")
        => LET l == OpValue(marker[1]).ret
           IN  IF (marker[2] = "and" /\ ~l) \/ (marker[2] = "or" /\ l)
               THEN last.raised = "none" /\ last.ret = Bool(l)
               ELSE last.raised = OpValue(marker[3]).raised

\* `sys.platform == 'linux2' or`, nothing after the connective, is true
C20_Witness ==
    /\ last.op = "result"
    /\ marker = <<"platform_is_linux2", "or", "empty">>
    /\ OpValue("platform_is_linux2").ret
    /\ OpValue("empty").raised = "SyntaxError"
    /\ last.raised = "none"
    /\ last.ret = Bool(TRUE)

-----------------------------------------------------------------------------
(* The stored Metadata-Version after a mutation *)

\* C21: after a set, a delete or a write_file that returned without error,
\* the Metadata-Version key is present, its stored value is `version`, and
\* get('Metadata-Version') returns `version`, whatever the caller stored
\* under that name.
C21_StoredVersionIsInferred ==
    (last.op \in {"set", "del", "write_file"} /\ last.raised = "none")
        => /\ "Metadata-Version" \in DOMAIN fields
           /\ fields["Metadata-Version"] = version
           /\ get(Self, "Metadata-Version") = [raised |-> "none", ret |-> version]

\* set('Metadata-Version', 'x') returned and the stored value is not 'x'
C21_Witness ==
    /\ last.op = "set"
    /\ last.name = "Metadata-Version"
    /\ last.raised = "none"
    /\ fields["Metadata-Version"] = version
    /\ version # Str(<<"x">>)

-----------------------------------------------------------------------------
(* The single root of the chain *)

IsOperation(node) == ~IsNone(node) /\ node.kind = "Operation"

\* a finished tree: an operation, or a wrapper around a finished tree whose
\* right slot holds an operation
RECURSIVE Finished(_)
Finished(node) ==
    \/ IsOperation(node)
    \/ /\ ~IsNone(node)
       /\ node.kind \in {"AND", "OR"}
       /\ IsOperation(node.right)
       /\ Finished(node.left)

\* the root between two tokens: a finished tree, or, only while the next
\* operation is awaited, a wrapper around one with its right slot empty
IsRoot(node) ==
    \/ Finished(node)
    \/ /\ op_starting
       /\ ~IsNone(node)
       /\ node.kind \in {"AND", "OR"}
       /\ IsNone(node.right)
       /\ Finished(node.left)

\* the operation the next operand or operator token goes to
Current == IF IsOperation(ops[1]) THEN ops[1] ELSE ops[1].right

\* the states of the parser
Awaiting == op_starting
CollectingLeft ==
    ~op_starting /\ IsOperation(Current)
        /\ IsNone(Current.op) /\ IsNone(Current.right)
CollectingOperator ==
    ~op_starting /\ IsOperation(Current)
        /\ ~IsNone(Current.op) /\ IsNone(Current.right)
CollectingRight ==
    ~op_starting /\ IsOperation(Current)
        /\ ~IsNone(Current.op) /\ ~IsNone(Current.right)

\* C22: after every token eat has consumed, the first one included, ops
\* holds exactly one node, the root: a left-nested tree whose right slots
\* hold operations, the last one empty only while the next operation is
\* awaited; the parser is in one of the four states; a token eat rejects
\* leaves ops as it was; and the result is the value of the root.
C22_SingleRoot ==
    /\ (last.op = "eat" /\ last.raised = "none")
          => /\ Len(ops) = 1
             /\ IsRoot(ops[1])
             /\ Awaiting \/ CollectingLeft \/ CollectingOperator
                   \/ CollectingRight
    /\ (last.op = "eat" /\ last.raised # "none")
          => Len(ops) = 0 \/ (Len(ops) = 1 /\ IsRoot(ops[1]))
    /\ last.op = "result"
          => /\ Len(ops) = 1
             /\ Finished(ops[1])
             /\ last.raised = call(ops[1]).raised
             /\ last.raised = "none" => last.ret = Bool(call(ops[1]).ret)

\* the first token after `or` went into the right slot of the wrapper that
\* `or` had put around the root
C22_Witness ==
    /\ last.op = "eat"
    /\ last.raised = "none"
    /\ marker = <<"platform_is_linux2", "or", "os_is_posix">>
    /\ Len(ops) = 1
    /\ ops[1].kind = "OR"
    /\ ops[1].left.kind = "Operation"
    /\ CollectingLeft
    /\ Current.left = Str(<<"os">>)

=============================================================================
